---- MODULE Spec2Model ----
(***************************************************************************)
(* State-machine model of the hooks of cs-react-hooks.                     *)
(*                                                                         *)
(* Every hook is an independent binding; each gets its own variables, its  *)
(* own actions and its own specification (SpecFetch, SpecDebounce,         *)
(* SpecInterval, SpecStorage, SpecToggle, SpecPrevious, SpecMedia,         *)
(* SpecClick), and Spec interleaves them all.                              *)
(*                                                                         *)
(* A re-evaluation of a hook with new arguments is one action: the render, *)
(* the cleanup of every effect whose dependencies changed and the re-run   *)
(* of those effects, in the order the source lists them.  Timer callbacks, *)
(* promise continuations and event listeners are actions of their own, and *)
(* so is the re-render React makes after a state update of a hook whose    *)
(* functions read the rendered state (useLocalStorage, useToggle).  Only   *)
(* usePrevious separates the body of an evaluation from its effect.        *)
(***************************************************************************)
EXTENDS Integers, FiniteSets, Sequences, TLC

VARIABLES
  \* ---- useFetch (src/src/useFetch.js) ----
  fPhase,              \* "absent", "rendered" (first render done, effects not yet run), "mounted", "unmounted"
  url,                 \* argument url
  manual,              \* options.manual
  responseType,        \* options.responseType
  fetchOptions,        \* the rest of options, as passed at the latest render
  stableFetchOptions,  \* the memoized options object
  data,                \* state: Null or the id of the request whose body was committed
  error,               \* state: NoError or the error that was committed
  loading,             \* state
  abortController,     \* abortController.current: Null or the id of the latest controller
  reqs,                \* the requests whose async fetchData call has not finished yet
  nextReq,             \* number of requests issued so far
  lastEvent,           \* history: the fetchData call the latest step started (by whom) or ended (how)
  \* ---- useDebounce (src/unnamed/part_000) ----
  dPhase,              \* "absent", "rendered", "mounted", "unmounted"
  value,               \* argument value
  delay,               \* argument delay
  debouncedValue,      \* state
  handler,             \* the timeout id the latest run of the effect holds
  timeouts,            \* the pending timeouts: [id, value, rem], rem the time left
  sinceInput,          \* history: time since value last changed, up to MaxDelay
  dClock,              \* the parity of the time
  skipped,             \* history: the inputs replaced before their commit, in the latest burst
  \* ---- useInterval (src/src/useInterval.js) ----
  iPhase,              \* "absent", "rendered", "mounted", "unmounted"
  callback,            \* argument callback
  cadence,             \* argument delay: Null (paused) or a number of time units
  savedCallback,       \* savedCallback.current: Undefined or a callback
  intervals,           \* the running intervals: [id, delay, rem, cb], rem the time to the next tick
  nextTimer,           \* number of intervals scheduled so far
  invoked,             \* history: the callback the latest step invoked, or NoCall
  resumed,             \* history: an interval ran, was paused, and a render supplied a number again
  \* ---- useLocalStorage (src/src/useDebounce.js) ----
  sPhase,              \* "absent", "rendered", "mounted", "unmounted"
  key,                 \* argument key
  initialValue,        \* argument initialValue
  storedValue,         \* state, as the latest render saw it
  pendingValue,        \* the state update queued since the latest render, or NoUpdate
  store,               \* window.localStorage: key -> the string stored, or Missing
  events,              \* the storage events queued for this window, oldest first
  readThrew,           \* history: getItem threw in the state initializer
  lastOp,              \* history: the call the latest step made, its argument and outcome
  \* ---- useToggle (src/unnamed/part_004) ----
  tPhase,              \* "absent", "mounted", "unmounted"
  state,               \* state, as the latest render saw it
  queue,               \* the updates handed to setState since the latest render, oldest first
  hist,                \* history: the latest two calls, each with the state before it
  lastBatch,           \* history: the updates the latest re-render applied
  \* ---- usePrevious (src/src/usePrevious.js) ----
  pPhase,              \* "absent", "rendered" (first evaluation done, its effect due), "mounted", "unmounted"
  observed,            \* argument value of the latest evaluation
  ref,                 \* ref.current
  returned,            \* what the latest evaluation returned
  effectDue,           \* the effect of the latest evaluation has not run yet
  preceding,           \* history: argument value of the evaluation before the latest, or Undefined
  evals,               \* number of evaluations so far
  \* ---- useMediaQuery (src/src/useDebounce.js) ----
  mPhase,              \* "absent", "rendered", "mounted", "unmounted"
  query,               \* argument query
  matches,             \* state
  media,               \* the environment: expression -> window.matchMedia(expression).matches
  subs,                \* the expressions whose MediaQueryList carries a listener of this binding
  lastChange,          \* history: the expression whose change event the latest step dispatched
  \* ---- useOnClickOutside (src/unnamed/part_001) ----
  cPhase,              \* "absent", "rendered", "mounted", "unmounted"
  clickRef,            \* argument ref: the ref object
  clickHandler,        \* argument handler
  current,             \* ref object -> its current: an element, or Unbound
  listeners,           \* the listeners of this binding on document: [type, ref, handler]
  called,              \* history: handler -> number of times the latest step invoked it
  domEvent             \* history: the event the latest step dispatched, or NoDomEvent

fetchVars == <<fPhase, url, manual, responseType, fetchOptions, stableFetchOptions,
               data, error, loading, abortController, reqs, nextReq, lastEvent>>

debounceVars == <<dPhase, value, delay, debouncedValue, handler, timeouts, sinceInput,
                  dClock, skipped>>

intervalVars == <<iPhase, callback, cadence, savedCallback, intervals, nextTimer, invoked,
                  resumed>>

storageVars == <<sPhase, key, initialValue, storedValue, pendingValue, store, events,
                 readThrew, lastOp>>

toggleVars == <<tPhase, state, queue, hist, lastBatch>>

previousVars == <<pPhase, observed, ref, returned, effectDue, preceding, evals>>

mediaVars == <<mPhase, query, matches, media, subs, lastChange>>

clickVars == <<cPhase, clickRef, clickHandler, current, listeners, called, domEvent>>

vars == <<fetchVars, debounceVars, intervalVars, storageVars, toggleVars, previousVars,
          mediaVars, clickVars>>

-----------------------------------------------------------------------------
(* Bounds *)

\* Requests one binding issues in a run.
MaxReq == 3

\* The longest debounce delay, in time units.
MaxDelay == 2

\* The longest cadence of an interval, in time units.
MaxCadence == 2

\* Intervals one useInterval binding schedules in a run.
MaxTimers == 3

\* Storage events queued for the window and not yet dispatched.
MaxEvents == 1

\* Updates one useToggle binding queues between two re-renders.
MaxQueue == 2

\* Evaluations of one usePrevious binding in a run.
MaxEvals == 6

-----------------------------------------------------------------------------
(* useFetch *)

\* useState(null), useRef(null)
Null == 0

NoError == [req |-> Null, kind |-> "none", status |-> Null]

NoEvent == [kind |-> "none", req |-> Null]

\* The falsy url and two targets.
Urls == {"", "u1", "u2"}

\* Encodings the caller asks for: two of the supported ones ("blob" takes the
\* same path as "text") and one unsupported.
ResponseTypes == {"json", "text", "xml"}

\* Fetch options of the caller: a plain set of options, the same options plus a
\* field JSON.stringify drops (a function or an undefined value), and options
\* that carry an abort signal of the caller's own.
Options == {"get", "getFn", "sig"}

\* JSON.stringify(fetchOptions): the key of the useMemo.
Stringify(o) == IF o = "getFn" THEN "get" ELSE o

\* The signal the transport listens to: { signal: controller.signal,
\* ...stableFetchOptions } lets a signal among the options replace the controller's.
SignalOf(o) == IF o = "sig" THEN "caller" ELSE "own"

\* Statuses a response can carry; response.ok is status in 200..299.
Statuses == {200, 404}

ResponseOk(s) == s >= 200 /\ s <= 299

Supported(rt) == rt \in {"json", "text", "blob"}

\* A request is canceled when the signal it listens to is its controller's and
\* that controller was aborted.
Canceled(r) == r.ctlAborted /\ r.sig = "own"

\* The rejection of an aborted fetch is a microtask: it runs before any other
\* callback of the event loop.
MicrotasksDrained == \A r \in reqs : ~Canceled(r)

\* controller.abort() on abortController.current
Abort(rs, ctl) ==
  {IF r.id = ctl THEN [r EXCEPT !.ctlAborted = TRUE] ELSE r : r \in rs}

\* A state setter; React drops the update of an unmounted component.
SetState(phase, old, new) == IF phase = "unmounted" THEN old ELSE new

\* Faulty variant: fetchData has no url guard.
FetchData_NoGuard(u, so, rt, rs, by) ==
  /\ nextReq' = nextReq + 1
  /\ lastEvent' = [kind |-> by, req |-> nextReq + 1]
  /\ abortController' = nextReq + 1
  /\ reqs' = Abort(rs, abortController) \cup
               {[id |-> nextReq + 1, sig |-> SignalOf(so), rt |-> rt,
                 phase |-> "fetch", ctlAborted |-> FALSE]}
  /\ loading' = TRUE
  /\ error' = NoError
  /\ UNCHANGED data

\* fetchData(), up to its first await, with the url, options and responseType
\* of the render that created it; rs are the requests as the caller left them.
\* by names the caller: "effect" or "refetch".
FetchData(u, so, rt, rs, by) ==
  IF u = ""
    THEN /\ reqs' = rs
         /\ lastEvent' = NoEvent
         /\ UNCHANGED <<data, error, loading, abortController, nextReq>>
    ELSE /\ nextReq' = nextReq + 1
         /\ lastEvent' = [kind |-> by, req |-> nextReq + 1]
         /\ abortController' = nextReq + 1
         /\ reqs' = Abort(rs, abortController) \cup
                      {[id |-> nextReq + 1, sig |-> SignalOf(so), rt |-> rt,
                        phase |-> "fetch", ctlAborted |-> FALSE]}
         /\ loading' = TRUE
         /\ error' = NoError
         /\ UNCHANGED data

\* Faulty variant: the effect fetches whatever manual says.
RunEffect_IgnoresManual(u, so, rt, m) ==
  FetchData(u, so, rt, Abort(reqs, abortController), "effect")

\* The effect: the cleanup of its previous run, then the run itself.
RunEffect(u, so, rt, m) ==
  IF m
    THEN /\ reqs' = Abort(reqs, abortController)
         /\ lastEvent' = NoEvent
         /\ UNCHANGED <<data, error, loading, abortController, nextReq>>
    ELSE FetchData(u, so, rt, Abort(reqs, abortController), "effect")

\* A render with new arguments.  fetchData changes identity when url,
\* stableFetchOptions or responseType change; the effect re-runs when fetchData
\* or manual change.
Render(u, o, rt, m) ==
  LET so == IF Stringify(o) = Stringify(fetchOptions) THEN stableFetchOptions ELSE o
      rerun == u # url \/ so # stableFetchOptions \/ rt # responseType \/ m # manual
  IN /\ fPhase = "mounted"
     /\ MicrotasksDrained
     /\ nextReq < MaxReq
     /\ <<u, o, rt, m>> # <<url, fetchOptions, responseType, manual>>
     /\ url' = u /\ fetchOptions' = o /\ responseType' = rt /\ manual' = m
     /\ stableFetchOptions' = so
     /\ fPhase' = fPhase
     /\ IF rerun
          THEN RunEffect(u, so, rt, m)
          ELSE /\ lastEvent' = NoEvent
               /\ UNCHANGED <<data, error, loading, abortController, reqs, nextReq>>

\* The effect of the first render.
FetchMount ==
  /\ fPhase = "rendered"
  /\ fPhase' = "mounted"
  /\ IF manual
       THEN /\ lastEvent' = NoEvent
            /\ UNCHANGED <<data, error, loading, abortController, reqs, nextReq>>
       ELSE FetchData(url, stableFetchOptions, responseType, reqs, "effect")
  /\ UNCHANGED <<url, manual, responseType, fetchOptions, stableFetchOptions>>

SetUrl == \E u \in Urls : Render(u, fetchOptions, responseType, manual)

SetOptions == \E o \in Options : Render(url, o, responseType, manual)

SetResponseType == \E rt \in ResponseTypes : Render(url, fetchOptions, rt, manual)

SetManual == \E m \in BOOLEAN : Render(url, fetchOptions, responseType, m)

\* refetch(), called by the owner of the mounted binding.
Refetch ==
  /\ fPhase = "mounted"
  /\ MicrotasksDrained
  /\ nextReq < MaxReq
  /\ FetchData(url, stableFetchOptions, responseType, reqs, "refetch")
  /\ UNCHANGED <<fPhase, url, manual, responseType, fetchOptions, stableFetchOptions>>

\* Teardown: the cleanup of the effect.
FetchUnmount ==
  /\ fPhase = "mounted"
  /\ MicrotasksDrained
  /\ fPhase' = "unmounted"
  /\ reqs' = Abort(reqs, abortController)
  /\ lastEvent' = NoEvent
  /\ UNCHANGED <<url, manual, responseType, fetchOptions, stableFetchOptions,
                 data, error, loading, abortController, nextReq>>

\* Faulty variant: a failure clears data.
Finish_ClearsData(r, out) ==
  /\ reqs' = reqs \ {r}
  /\ data' = IF out.kind = "data" THEN SetState(fPhase, data, r.id)
             ELSE IF out.kind = "abort" THEN data ELSE SetState(fPhase, data, Null)
  /\ error' = IF out.kind \in {"data", "abort"}
                THEN error
                ELSE SetState(fPhase, error, [req |-> r.id, kind |-> out.kind,
                                              status |-> out.status])
  /\ loading' = SetState(fPhase, loading, FALSE)
  /\ lastEvent' = [kind |-> out.kind, req |-> r.id]
  /\ UNCHANGED <<fPhase, url, manual, responseType, fetchOptions,
                 stableFetchOptions, abortController, nextReq>>

\* The end of an async fetchData call: the outcome reaches try, catch or
\* finally.  out.kind is "data" (setData), "abort" (an AbortError, swallowed)
\* or a failure (setError); finally sets loading to false in every case.
Finish(r, out) ==
  /\ reqs' = reqs \ {r}
  /\ data' = IF out.kind = "data" THEN SetState(fPhase, data, r.id) ELSE data
  /\ error' = IF out.kind \in {"data", "abort"}
                THEN error
                ELSE SetState(fPhase, error, [req |-> r.id, kind |-> out.kind,
                                              status |-> out.status])
  /\ loading' = SetState(fPhase, loading, FALSE)
  /\ lastEvent' = [kind |-> out.kind, req |-> r.id]
  /\ UNCHANGED <<fPhase, url, manual, responseType, fetchOptions,
                 stableFetchOptions, abortController, nextReq>>

\* The fetch or the body read of a canceled request rejects with an AbortError.
SettleAborted ==
  \E r \in reqs :
    /\ Canceled(r)
    /\ Finish(r, [kind |-> "abort", status |-> Null])

\* await fetch(...) rejects: a transport failure.
FetchRejects ==
  \E r \in reqs :
    /\ ~Canceled(r)
    /\ r.phase = "fetch"
    /\ Finish(r, [kind |-> "network", status |-> Null])

\* await fetch(...) resolves with a response.
FetchResolves ==
  \E r \in reqs, s \in Statuses :
    /\ ~Canceled(r)
    /\ r.phase = "fetch"
    /\ IF ~ResponseOk(s)
         THEN Finish(r, [kind |-> "http", status |-> s])
         ELSE IF ~Supported(r.rt)
           THEN Finish(r, [kind |-> "unsupported", status |-> Null])
           ELSE /\ reqs' = (reqs \ {r}) \cup {[r EXCEPT !.phase = "decode"]}
                /\ lastEvent' = NoEvent
                /\ UNCHANGED <<fPhase, url, manual, responseType, fetchOptions,
                               stableFetchOptions, data, error, loading,
                               abortController, nextReq>>

\* await response.json() / text() / blob() resolves or rejects.
BodyDecoded ==
  \E r \in reqs, ok \in BOOLEAN :
    /\ ~Canceled(r)
    /\ r.phase = "decode"
    /\ Finish(r, [kind |-> IF ok THEN "data" ELSE "decode", status |-> Null])

FetchInit ==
  /\ fPhase = "rendered"
  /\ url \in Urls
  /\ manual \in BOOLEAN
  /\ responseType \in ResponseTypes
  /\ fetchOptions \in Options
  /\ stableFetchOptions = fetchOptions
  /\ data = Null
  /\ error = NoError
  /\ loading = ~manual
  /\ abortController = Null
  /\ reqs = {}
  /\ nextReq = 0
  /\ lastEvent = NoEvent

\* No useFetch binding is instantiated.
FetchIdle ==
  /\ fPhase = "absent"
  /\ url = ""
  /\ manual = FALSE
  /\ responseType = "json"
  /\ fetchOptions = "get"
  /\ stableFetchOptions = "get"
  /\ data = Null
  /\ error = NoError
  /\ loading = FALSE
  /\ abortController = Null
  /\ reqs = {}
  /\ nextReq = 0
  /\ lastEvent = NoEvent

-----------------------------------------------------------------------------
(* useDebounce *)

Values == {"a", "b", "c"}

Delays == 0 .. MaxDelay

Min(x, y) == IF x < y THEN x ELSE y

Max(x, y) == IF x > y THEN x ELSE y

\* An id no pending timeout holds.
FreshId(ts) == CHOOSE i \in 1 .. (Cardinality(ts) + 1) : \A t \in ts : t.id # i

\* Faulty variant: the timeout is scheduled without the delay.
SetTimeout_NoDelay(ts, v, d) == ts \cup {[id |-> FreshId(ts), value |-> v, rem |-> 0]}

\* setTimeout(() => setDebouncedValue(v), d)
SetTimeout(ts, v, d) == ts \cup {[id |-> FreshId(ts), value |-> v, rem |-> d]}

\* Faulty variant: the cleanup leaves the timeout pending.
ClearTimeout_Noop(ts, h) == ts

\* clearTimeout(h)
ClearTimeout(ts, h) == {t \in ts : t.id # h}

\* Faulty variant: the callback commits nothing new.
TimeoutCallback_Stale(t, old) == old

\* The callback of a timeout: setDebouncedValue(value), value the one the
\* effect run captured.
TimeoutCallback(t, old) == t.value

\* The effect of the first render.
DebounceMount ==
  /\ dPhase = "rendered"
  /\ dPhase' = "mounted"
  /\ handler' = FreshId(timeouts)
  /\ timeouts' = SetTimeout(timeouts, value, delay)
  /\ UNCHANGED <<value, delay, debouncedValue, sinceInput, dClock, skipped>>

\* A render with a new value or delay: the cleanup of the effect, then the effect.
DebounceRender(v, d) ==
  /\ dPhase = "mounted"
  /\ <<v, d>> # <<value, delay>>
  /\ value' = v
  /\ delay' = d
  /\ handler' = FreshId(ClearTimeout(timeouts, handler))
  /\ timeouts' = SetTimeout(ClearTimeout(timeouts, handler), v, d)
  /\ sinceInput' = IF v # value THEN 0 ELSE sinceInput
  /\ skipped' = IF v = value THEN skipped
                ELSE IF timeouts = {} THEN {} ELSE skipped \cup {value}
  /\ UNCHANGED <<dPhase, debouncedValue, dClock>>

SetValue == \E v \in Values : DebounceRender(v, delay)

SetDelay == \E d \in Delays : DebounceRender(value, d)

\* One time unit passes.
DebounceTick ==
  /\ dPhase # "rendered"
  /\ timeouts' = {[t EXCEPT !.rem = Max(t.rem - 1, 0)] : t \in timeouts}
  /\ sinceInput' = Min(sinceInput + 1, MaxDelay)
  /\ dClock' = 1 - dClock
  /\ UNCHANGED skipped
  /\ UNCHANGED <<dPhase, value, delay, debouncedValue, handler>>

\* A timeout whose time has passed fires.
DebounceFire ==
  \E t \in timeouts :
    /\ t.rem = 0
    /\ timeouts' = timeouts \ {t}
    /\ debouncedValue' = SetState(dPhase, debouncedValue,
                                  TimeoutCallback(t, debouncedValue))
    /\ UNCHANGED <<dPhase, value, delay, handler, sinceInput, dClock, skipped>>

\* Teardown: the cleanup of the effect.
DebounceUnmount ==
  /\ dPhase = "mounted"
  /\ dPhase' = "unmounted"
  /\ timeouts' = ClearTimeout(timeouts, handler)
  /\ UNCHANGED <<value, delay, debouncedValue, handler, sinceInput, dClock, skipped>>

\* The first render: useState(value).
DebounceInit ==
  /\ dPhase = "rendered"
  /\ value = "a"
  /\ delay \in Delays
  /\ debouncedValue = value
  /\ handler = Null
  /\ timeouts = {}
  /\ sinceInput = 0
  /\ dClock = 0
  /\ skipped = {}

\* No useDebounce binding is instantiated.
DebounceIdle ==
  /\ dPhase = "absent"
  /\ value = "a"
  /\ delay = 0
  /\ debouncedValue = "a"
  /\ handler = Null
  /\ timeouts = {}
  /\ sinceInput = 0
  /\ dClock = 0
  /\ skipped = {}

-----------------------------------------------------------------------------
(* useInterval *)

Callbacks == {"c1", "c2", "c3"}

\* useRef(): savedCallback.current before the first effect ran.
Undefined == "undefined"

\* No callback was invoked.
NoCall == "none"

\* null, and the cadences 1 .. MaxCadence.
Cadences == {Null} \cup (1 .. MaxCadence)

\* Faulty variant: setInterval(callback, delay), the callback of the scheduling render.
IntervalCallback_Captured(t, saved) == t.cb

\* The function setInterval is given: () => savedCallback.current().  It reads
\* the ref when it runs; t.cb is the callback of the render that scheduled t.
IntervalCallback(t, saved) == saved

\* The first effect: savedCallback.current = callback.
SaveCallback(cb) == cb

\* Faulty variant: the cleanup leaves the interval running.
ClearInterval_Noop(ts, ids) == ts

\* clearInterval(id), the cleanup of the second effect.
ClearInterval(ts, ids) == {t \in ts : t.id \notin ids}

\* Faulty variant: the second effect calls setInterval whatever the delay is.
ScheduleInterval_IgnoresNull(ts, d, id, cb) ==
  ts \cup {[id |-> id, delay |-> d, rem |-> d, cb |-> cb]}

\* The second effect: nothing when delay === null, else setInterval.
ScheduleInterval(ts, d, id, cb) ==
  IF d = Null THEN ts ELSE ts \cup {[id |-> id, delay |-> d, rem |-> d, cb |-> cb]}

\* The interval the latest run of the second effect holds (none when that run
\* returned early).
Held == {t.id : t \in {t \in intervals : t.id = nextTimer}}

\* The effects of the first render, in source order.
IntervalMount ==
  /\ iPhase = "rendered"
  /\ iPhase' = "mounted"
  /\ savedCallback' = SaveCallback(callback)
  /\ intervals' = ScheduleInterval(intervals, cadence, nextTimer + 1, callback)
  /\ nextTimer' = IF cadence = Null THEN nextTimer ELSE nextTimer + 1
  /\ invoked' = NoCall
  /\ UNCHANGED <<callback, cadence, resumed>>

\* A render with a new callback or delay: the first effect re-runs when the
\* callback changed, the second (cleanup, then effect) when the delay changed.
IntervalRender(cb, d) ==
  /\ iPhase = "mounted"
  /\ <<cb, d>> # <<callback, cadence>>
  /\ nextTimer < MaxTimers
  /\ callback' = cb
  /\ cadence' = d
  /\ savedCallback' = IF cb # callback THEN SaveCallback(cb) ELSE savedCallback
  /\ IF d # cadence
       THEN /\ intervals' = ScheduleInterval(ClearInterval(intervals, Held), d,
                                             nextTimer + 1, cb)
            /\ nextTimer' = IF d = Null THEN nextTimer ELSE nextTimer + 1
       ELSE UNCHANGED <<intervals, nextTimer>>
  /\ invoked' = NoCall
  /\ resumed' = (resumed \/ (nextTimer > 0 /\ cadence = Null /\ d # Null))
  /\ iPhase' = iPhase

SetCallback == \E cb \in Callbacks : IntervalRender(cb, cadence)

SetCadence == \E d \in Cadences : IntervalRender(callback, d)

SetCallbackAndCadence ==
  \E cb \in Callbacks, d \in Cadences :
    cb # callback /\ d # cadence /\ IntervalRender(cb, d)

\* One time unit passes.
IntervalTime ==
  /\ iPhase # "rendered"
  /\ intervals' = {[t EXCEPT !.rem = Max(t.rem - 1, 0)] : t \in intervals}
  /\ invoked' = NoCall
  /\ UNCHANGED <<iPhase, callback, cadence, savedCallback, nextTimer, resumed>>

\* A tick of a running interval.
IntervalTick ==
  \E t \in intervals :
    /\ t.rem = 0
    /\ invoked' = IntervalCallback(t, savedCallback)
    /\ intervals' = (intervals \ {t}) \cup {[t EXCEPT !.rem = t.delay]}
    /\ UNCHANGED <<iPhase, callback, cadence, savedCallback, nextTimer, resumed>>

\* Teardown: the cleanup of the second effect.
IntervalUnmount ==
  /\ iPhase = "mounted"
  /\ iPhase' = "unmounted"
  /\ intervals' = ClearInterval(intervals, Held)
  /\ invoked' = NoCall
  /\ UNCHANGED <<callback, cadence, savedCallback, nextTimer, resumed>>

\* The first render: useRef().
IntervalInit ==
  /\ iPhase = "rendered"
  /\ callback = "c1"
  /\ cadence \in Cadences
  /\ savedCallback = Undefined
  /\ intervals = {}
  /\ nextTimer = 0
  /\ invoked = NoCall
  /\ resumed = FALSE

\* No useInterval binding is instantiated.
IntervalIdle ==
  /\ iPhase = "absent"
  /\ callback = "c1"
  /\ cadence = Null
  /\ savedCallback = Undefined
  /\ intervals = {}
  /\ nextTimer = 0
  /\ invoked = NoCall
  /\ resumed = FALSE

-----------------------------------------------------------------------------
(* useLocalStorage *)

\* The keys a binding is given; the owner may pass another key at a re-render.
Keys == {"k1", "k2"}

\* event.key of the notification of localStorage.clear(): null.
NullKey == "<null>"

\* getItem of a key that has no entry; event.newValue of a removed key: null.
Missing == "<absent>"

\* An exception is thrown instead of a value being returned.
Throws == "<throws>"

\* No state update is queued.
NoUpdate == "<none>"

\* The values of the caller: two values JSON represents ("a", "b"), null, a
\* value JSON does not represent (NaN) and an object with a cycle.
JsValues == {"a", "b", "null", "NaN", "cyc"}

\* The updaters of the caller, functions of the previous value.
Updaters == {"next"}

\* value(storedValue) for the updater "next".
Apply(f, v) == IF v = "a" THEN "b" ELSE "a"

\* JSON.stringify(v): NaN is written as null, a cycle throws.
StringifyValue(v) ==
  CASE v = "a" -> "\"a\""
    [] v = "b" -> "\"b\""
    [] v = "null" -> "null"
    [] v = "NaN" -> "null"
    [] OTHER -> Throws

\* JSON.parse(text)
Parse(t) ==
  CASE t = "\"a\"" -> "a"
    [] t = "\"b\"" -> "b"
    [] t = "null" -> "null"
    [] OTHER -> Throws

\* What another context writes under a key: a JSON text, a text that is not
\* JSON, the empty string.
ExternalTexts == {"\"b\"", "{", ""}

\* A string is falsy when it is null or empty.
Falsy(t) == t = Missing \/ t = ""

\* Faulty variant: the initializer parses without a try.
InitialRead_NoCatch(st, k, init, readThrows) ==
  IF readThrows THEN Throws
  ELSE IF Falsy(st[k]) THEN init ELSE Parse(st[k])

\* The state initializer: getItem, then JSON.parse of a truthy item, the
\* initial value otherwise and when either throws.
InitialRead(st, k, init, readThrows) ==
  IF readThrows THEN init
  ELSE IF Falsy(st[k]) THEN init
  ELSE IF Parse(st[k]) = Throws THEN init
  ELSE Parse(st[k])

\* The state as React holds it: the last queued update, if any, else the state
\* of the latest render.
Exposed == IF pendingValue # NoUpdate THEN pendingValue ELSE storedValue

NoOp == [op |-> "none", arg |-> NoUpdate, res |-> "none"]

\* value instanceof Function ? value(storedValue) : value, storedValue being the
\* state of the render that created this setValue.
ValueToStore(arg, sv) == IF arg \in Updaters THEN Apply(arg, sv) ELSE arg

\* Faulty variant: the entry is written under a fixed key.
SetItem_FixedKey(st, k, t) == [st EXCEPT !["k1"] = t]

\* window.localStorage.setItem(key, text)
SetItem(st, k, t) == [st EXCEPT ![k] = t]

\* The effect registers handleStorageChange.
StorageMount ==
  /\ sPhase = "rendered"
  /\ sPhase' = "mounted"
  /\ lastOp' = NoOp
  /\ UNCHANGED <<key, initialValue, storedValue, pendingValue, store, events, readThrew>>

\* setValue(arg): the state update, then the write; the catch swallows what
\* JSON.stringify or setItem throw.  writeThrows: setItem throws (quota, access).
SetValueCall(arg, writeThrows) ==
  LET valueToStore == ValueToStore(arg, storedValue)
      text == StringifyValue(valueToStore)
  IN /\ sPhase = "mounted"
     /\ pendingValue' = valueToStore
     /\ IF text = Throws \/ writeThrows
          THEN /\ store' = store
               /\ lastOp' = [op |-> "set", arg |-> arg, res |-> "threw"]
          ELSE /\ store' = SetItem(store, key, text)
               /\ lastOp' = [op |-> "set", arg |-> arg, res |-> "ok"]
     /\ UNCHANGED <<sPhase, key, initialValue, storedValue, events, readThrew>>

SetLiteral == \E v \in JsValues, w \in BOOLEAN : SetValueCall(v, w)

SetFunctional == \E f \in Updaters, w \in BOOLEAN : SetValueCall(f, w)

\* React re-renders the owner with the queued state.
StorageCommit ==
  /\ sPhase = "mounted"
  /\ pendingValue # NoUpdate
  /\ storedValue' = pendingValue
  /\ pendingValue' = NoUpdate
  /\ lastOp' = NoOp
  /\ UNCHANGED <<sPhase, key, initialValue, store, events, readThrew>>

\* A render with another key: the state initializer does not run again, the
\* effect re-registers the listener with the new key.
StorageSetKey ==
  \E k \in Keys :
    /\ sPhase = "mounted"
    /\ k # key
    /\ key' = k
    /\ storedValue' = Exposed
    /\ pendingValue' = NoUpdate
    /\ lastOp' = [op |-> "key", arg |-> NoUpdate, res |-> "none"]
    /\ UNCHANGED <<sPhase, initialValue, store, events, readThrew>>

\* Another context sets an entry; a storage event is queued for this window.
\* (One text is enough for the entries of the keys the binding is not on.)
ExternalSet ==
  \E k \in Keys, t \in ExternalTexts :
    /\ sPhase \in {"rendered", "mounted"}
    /\ k # key => t = "\"b\""
    /\ Len(events) < MaxEvents
    /\ store[k] # t
    /\ store' = SetItem(store, k, t)
    /\ events' = Append(events, [key |-> k, newValue |-> t])
    /\ lastOp' = NoOp
    /\ UNCHANGED <<sPhase, key, initialValue, storedValue, pendingValue, readThrew>>

\* Another context removes an entry.
ExternalRemove ==
  \E k \in Keys :
    /\ sPhase \in {"rendered", "mounted"}
    /\ Len(events) < MaxEvents
    /\ store[k] # Missing
    /\ store' = SetItem(store, k, Missing)
    /\ events' = Append(events, [key |-> k, newValue |-> Missing])
    /\ lastOp' = NoOp
    /\ UNCHANGED <<sPhase, key, initialValue, storedValue, pendingValue, readThrew>>

\* Another context clears the store: one event, with a null key.
ExternalClear ==
  /\ sPhase \in {"rendered", "mounted"}
  /\ Len(events) < MaxEvents
  /\ \E k \in Keys : store[k] # Missing
  /\ store' = [k \in Keys |-> Missing]
  /\ events' = Append(events, [key |-> NullKey, newValue |-> Missing])
  /\ lastOp' = NoOp
  /\ UNCHANGED <<sPhase, key, initialValue, storedValue, pendingValue, readThrew>>

\* Faulty variant: the listener keeps the key of the first render.
HandleStorageChange_FirstKey(ev, k, pending) ==
  IF ev.key # "k1" THEN pending
  ELSE IF Falsy(ev.newValue) THEN "null"
  ELSE IF Parse(ev.newValue) = Throws THEN pending
  ELSE Parse(ev.newValue)

\* handleStorageChange(event): the queued state after it.
HandleStorageChange(ev, k, pending) ==
  IF ev.key # k THEN pending
  ELSE IF Falsy(ev.newValue) THEN "null"
  ELSE IF Parse(ev.newValue) = Throws THEN pending
  ELSE Parse(ev.newValue)

\* The window dispatches the oldest queued storage event; a window without the
\* listener drops it.
StorageEvent ==
  /\ events # <<>>
  /\ events' = Tail(events)
  /\ pendingValue' = IF sPhase = "mounted"
                       THEN HandleStorageChange(Head(events), key, pendingValue)
                       ELSE pendingValue
  /\ lastOp' = [op |-> "storage", arg |-> NoUpdate, res |-> "none"]
  /\ UNCHANGED <<sPhase, key, initialValue, storedValue, store, readThrew>>

\* Teardown: the cleanup removes the listener.
StorageUnmount ==
  /\ sPhase = "mounted"
  /\ sPhase' = "unmounted"
  /\ lastOp' = NoOp
  /\ UNCHANGED <<key, initialValue, storedValue, pendingValue, store, events, readThrew>>

\* What the store holds when the binding is created.
InitialContents == {Missing, "\"b\"", "null", "{", ""}

\* The first render: useState(initializer).
StorageInit ==
  /\ sPhase = "rendered"
  /\ key = "k1"
  /\ initialValue \in {"a", "null"}
  /\ store \in [Keys -> InitialContents]
  /\ store["k2"] \in {Missing, "\"b\""}
  /\ readThrew \in BOOLEAN
  /\ storedValue = InitialRead(store, key, initialValue, readThrew)
  /\ pendingValue = NoUpdate
  /\ events = <<>>
  /\ lastOp = [op |-> "init", arg |-> NoUpdate, res |-> "none"]

\* No useLocalStorage binding is instantiated.
StorageIdle ==
  /\ sPhase = "absent"
  /\ key = "k1"
  /\ initialValue = "a"
  /\ store = [k \in Keys |-> Missing]
  /\ readThrew = FALSE
  /\ storedValue = "a"
  /\ pendingValue = NoUpdate
  /\ events = <<>>
  /\ lastOp = NoOp

-----------------------------------------------------------------------------
(* useToggle *)

\* The update a call hands to setState: the updater (prev) => !prev, or a
\* literal.
Updates == {"not", "true", "false"}

\* React applies one queued update to the state.
ApplyUpdate(u, s) == IF u = "not" THEN ~s ELSE u = "true"

\* React applies the queued updates, oldest first, at the re-render.
RECURSIVE Reduce(_, _)
Reduce(s, q) == IF q = <<>> THEN s ELSE Reduce(ApplyUpdate(Head(q), s), Tail(q))

\* Faulty variant: toggle is setState(!state), with the state of the render.
ToggleUpdate_Stale(s) == IF s THEN "false" ELSE "true"

\* toggle: setState((prev) => !prev); s is the state of the latest render.
ToggleUpdate(s) == "not"

\* The record of the latest two calls: the call and the state before it.
Remember(h, c, prior) ==
  LET e == [call |-> c, before |-> prior]
  IN IF Len(h) < 2 THEN Append(h, e) ELSE <<h[2], e>>

\* A call of one of the three functions the hook returns: one setState.
ToggleCall(c, u) ==
  /\ tPhase = "mounted"
  /\ Len(queue) < MaxQueue
  /\ queue' = Append(queue, u)
  /\ hist' = Remember(hist, c, Reduce(state, queue))
  /\ UNCHANGED <<tPhase, state, lastBatch>>

Toggle == ToggleCall("toggle", ToggleUpdate(state))

SetTrue == ToggleCall("setTrue", "true")

SetFalse == ToggleCall("setFalse", "false")

\* React re-renders the owner with the queued updates applied.
ToggleCommit ==
  /\ tPhase = "mounted"
  /\ queue # <<>>
  /\ state' = Reduce(state, queue)
  /\ queue' = <<>>
  /\ lastBatch' = queue
  /\ UNCHANGED <<tPhase, hist>>

\* Teardown: the queued updates are dropped with the component.
ToggleUnmount ==
  /\ tPhase = "mounted"
  /\ tPhase' = "unmounted"
  /\ queue' = <<>>
  /\ UNCHANGED <<state, hist, lastBatch>>

\* The first render: useState(initialValue).
ToggleInit ==
  /\ tPhase = "mounted"
  /\ state \in BOOLEAN
  /\ queue = <<>>
  /\ hist = <<>>
  /\ lastBatch = <<>>

\* No useToggle binding is instantiated.
ToggleIdle ==
  /\ tPhase = "absent"
  /\ state = FALSE
  /\ queue = <<>>
  /\ hist = <<>>
  /\ lastBatch = <<>>

-----------------------------------------------------------------------------
(* usePrevious *)

\* Faulty variant: the hook returns the value it was given.
Returned_Current(r, v) == v

\* return ref.current, r being ref.current and v the argument of this
\* evaluation.
Returned(r, v) == r

\* An evaluation of the hook with value v: the body runs to its return; the
\* effect is left to run after it when v is not the value of the previous
\* evaluation.  React runs the effects of a render preceding the next render.
PreviousRender(v) ==
  /\ pPhase = "mounted"
  /\ ~effectDue
  /\ evals < MaxEvals
  /\ observed' = v
  /\ returned' = Returned(ref, v)
  /\ effectDue' = (v # observed)
  /\ preceding' = observed
  /\ evals' = evals + 1
  /\ UNCHANGED <<pPhase, ref>>

PreviousEvaluate == \E v \in Values : PreviousRender(v)

\* The effect: ref.current = value.
PreviousEffect ==
  /\ pPhase \in {"rendered", "mounted"}
  /\ effectDue
  /\ ref' = observed
  /\ effectDue' = FALSE
  /\ pPhase' = "mounted"
  /\ UNCHANGED <<observed, returned, preceding, evals>>

\* Teardown; the effect has no cleanup.
PreviousUnmount ==
  /\ pPhase = "mounted"
  /\ ~effectDue
  /\ pPhase' = "unmounted"
  /\ UNCHANGED <<observed, ref, returned, effectDue, preceding, evals>>

\* The first evaluation: useRef(), return ref.current; its effect is due.
PreviousInit ==
  /\ pPhase = "rendered"
  /\ observed \in Values
  /\ ref = Undefined
  /\ returned = Returned(ref, observed)
  /\ effectDue = TRUE
  /\ preceding = Undefined
  /\ evals = 1

\* No usePrevious binding is instantiated.
PreviousIdle ==
  /\ pPhase = "absent"
  /\ observed = "a"
  /\ ref = Undefined
  /\ returned = Undefined
  /\ effectDue = FALSE
  /\ preceding = Undefined
  /\ evals = 0

-----------------------------------------------------------------------------
(* useMediaQuery *)

\* The query expressions the owner passes.
Queries == {"q1", "q2", "q3"}

\* No change event was dispatched.
NoQuery == "<none>"

\* mediaQueryList.addEventListener("change", listener), or addListener: ls are
\* the expressions whose MediaQueryList carries a listener of this binding.
AddListener(ls, q) == ls \cup {q}

\* Faulty variant: the cleanup leaves the listener on the list.
RemoveListener_Noop(ls, q) == ls

\* mediaQueryList.removeEventListener("change", listener), or removeListener
RemoveListener(ls, q) == ls \ {q}

\* The effect of the first render: subscribe, then set the current match.
MediaMount ==
  /\ mPhase = "rendered"
  /\ mPhase' = "mounted"
  /\ subs' = AddListener(subs, query)
  /\ matches' = media[query]
  /\ lastChange' = NoQuery
  /\ UNCHANGED <<query, media>>

\* A render with another expression: the cleanup of the effect, then the effect.
MediaSetQuery ==
  \E q \in Queries :
    /\ mPhase = "mounted"
    /\ q # query
    /\ query' = q
    /\ subs' = AddListener(RemoveListener(subs, query), q)
    /\ matches' = media[q]
    /\ lastChange' = NoQuery
    /\ UNCHANGED <<mPhase, media>>

\* The environment changes the match of an expression; its MediaQueryList
\* dispatches a change event, and the listener sets event.matches.
MediaChange ==
  \E q \in Queries :
    /\ mPhase # "absent"
    /\ media' = [media EXCEPT ![q] = ~media[q]]
    /\ matches' = IF q \in subs THEN media'[q] ELSE matches
    /\ lastChange' = q
    /\ UNCHANGED <<mPhase, query, subs>>

\* Teardown: the cleanup of the effect.
MediaUnmount ==
  /\ mPhase = "mounted"
  /\ mPhase' = "unmounted"
  /\ subs' = RemoveListener(subs, query)
  /\ lastChange' = NoQuery
  /\ UNCHANGED <<query, matches, media>>

\* The first render: useState(() => window.matchMedia(query).matches).
MediaInit ==
  /\ mPhase = "rendered"
  /\ query = "q1"
  /\ media \in [Queries -> BOOLEAN]
  /\ matches = media[query]
  /\ subs = {}
  /\ lastChange = NoQuery

\* No useMediaQuery binding is instantiated.
MediaIdle ==
  /\ mPhase = "absent"
  /\ query = "q1"
  /\ media = [q \in Queries |-> FALSE]
  /\ matches = FALSE
  /\ subs = {}
  /\ lastChange = NoQuery

-----------------------------------------------------------------------------
(* useOnClickOutside *)

\* The ref objects and the handlers the owner passes.
Refs == {"r1", "r2"}

Handlers == {"h1", "h2"}

\* ref.current is null: the ref is not bound to an element.
Unbound == "<null>"

\* The elements a ref is bound to, and the nodes an event targets: the
\* elements, a descendant of e1 and a node outside both.
Elements == {"e1", "e2"}

Nodes == {"e1", "e1c", "e2", "out"}

EventTypes == {"mousedown", "touchstart"}

\* element.contains(node): the element itself and its descendants.
Contains(e, n) == n = e \/ (e = "e1" /\ n = "e1c")

NoCalls == [h \in Handlers |-> 0]

NoDomEvent == [type |-> "none", target |-> "none"]

\* document.addEventListener, for both event types.
AddListeners(ls, r, h) ==
  ls \cup {[type |-> t, ref |-> r, handler |-> h] : t \in EventTypes}

\* Faulty variant: the cleanup removes the mousedown listener only.
RemoveListeners_MouseOnly(ls, r, h) ==
  ls \ {[type |-> "mousedown", ref |-> r, handler |-> h]}

\* document.removeEventListener, for both event types.
RemoveListeners(ls, r, h) ==
  ls \ {[type |-> t, ref |-> r, handler |-> h] : t \in EventTypes}

\* listener(event): the handler is called unless ref.current is null or
\* contains the target.
Calls(l, cur, n) == cur[l.ref] # Unbound /\ ~Contains(cur[l.ref], n)

\* The effect of the first render.
ClickMount ==
  /\ cPhase = "rendered"
  /\ cPhase' = "mounted"
  /\ listeners' = AddListeners(listeners, clickRef, clickHandler)
  /\ called' = NoCalls
  /\ domEvent' = NoDomEvent
  /\ UNCHANGED <<clickRef, clickHandler, current>>

\* A render with another ref object or handler: the cleanup, then the effect.
ClickRender ==
  \E r \in Refs, h \in Handlers :
    /\ cPhase = "mounted"
    /\ <<r, h>> # <<clickRef, clickHandler>>
    /\ clickRef' = r
    /\ clickHandler' = h
    /\ listeners' = AddListeners(RemoveListeners(listeners, clickRef, clickHandler), r, h)
    /\ called' = NoCalls
    /\ domEvent' = NoDomEvent
    /\ UNCHANGED <<cPhase, current>>

\* React attaches a ref to an element or detaches it.
BindRef ==
  \E r \in Refs, e \in Elements \cup {Unbound} :
    /\ cPhase # "absent"
    /\ current[r] # e
    /\ current' = [current EXCEPT ![r] = e]
    /\ called' = NoCalls
    /\ domEvent' = NoDomEvent
    /\ UNCHANGED <<cPhase, clickRef, clickHandler, listeners>>

\* The document dispatches a mousedown or touchstart event to its listeners.
DocumentEvent ==
  \E t \in EventTypes, n \in Nodes :
    /\ cPhase # "absent"
    /\ domEvent' = [type |-> t, target |-> n]
    /\ called' = [h \in Handlers |->
                   Cardinality({l \in listeners :
                                  l.type = t /\ l.handler = h /\ Calls(l, current, n)})]
    /\ UNCHANGED <<cPhase, clickRef, clickHandler, current, listeners>>

\* Teardown: the cleanup of the effect.
ClickUnmount ==
  /\ cPhase = "mounted"
  /\ cPhase' = "unmounted"
  /\ listeners' = RemoveListeners(listeners, clickRef, clickHandler)
  /\ called' = NoCalls
  /\ domEvent' = NoDomEvent
  /\ UNCHANGED <<clickRef, clickHandler, current>>

\* The first render; the effect has not run.
ClickInit ==
  /\ cPhase = "rendered"
  /\ clickRef = "r1"
  /\ clickHandler = "h1"
  /\ current \in [Refs -> Elements \cup {Unbound}]
  /\ listeners = {}
  /\ called = NoCalls
  /\ domEvent = NoDomEvent

\* No useOnClickOutside binding is instantiated.
ClickIdle ==
  /\ cPhase = "absent"
  /\ clickRef = "r1"
  /\ clickHandler = "h1"
  /\ current = [r \in Refs |-> Unbound]
  /\ listeners = {}
  /\ called = NoCalls
  /\ domEvent = NoDomEvent

-----------------------------------------------------------------------------
(* Specifications *)

InitFetch ==
  /\ FetchInit
  /\ DebounceIdle
  /\ IntervalIdle
  /\ StorageIdle
  /\ ToggleIdle
  /\ PreviousIdle
  /\ MediaIdle
  /\ ClickIdle

NextFetch ==
  \/ FetchMount /\ UNCHANGED <<debounceVars, intervalVars, storageVars, toggleVars, previousVars, mediaVars, clickVars>>
  \/ SetUrl /\ UNCHANGED <<debounceVars, intervalVars, storageVars, toggleVars, previousVars, mediaVars, clickVars>>
  \/ SetOptions /\ UNCHANGED <<debounceVars, intervalVars, storageVars, toggleVars, previousVars, mediaVars, clickVars>>
  \/ SetResponseType /\ UNCHANGED <<debounceVars, intervalVars, storageVars, toggleVars, previousVars, mediaVars, clickVars>>
  \/ SetManual /\ UNCHANGED <<debounceVars, intervalVars, storageVars, toggleVars, previousVars, mediaVars, clickVars>>
  \/ Refetch /\ UNCHANGED <<debounceVars, intervalVars, storageVars, toggleVars, previousVars, mediaVars, clickVars>>
  \/ FetchUnmount /\ UNCHANGED <<debounceVars, intervalVars, storageVars, toggleVars, previousVars, mediaVars, clickVars>>
  \/ SettleAborted /\ UNCHANGED <<debounceVars, intervalVars, storageVars, toggleVars, previousVars, mediaVars, clickVars>>
  \/ FetchRejects /\ UNCHANGED <<debounceVars, intervalVars, storageVars, toggleVars, previousVars, mediaVars, clickVars>>
  \/ FetchResolves /\ UNCHANGED <<debounceVars, intervalVars, storageVars, toggleVars, previousVars, mediaVars, clickVars>>
  \/ BodyDecoded /\ UNCHANGED <<debounceVars, intervalVars, storageVars, toggleVars, previousVars, mediaVars, clickVars>>

SpecFetch == InitFetch /\ [][NextFetch]_vars

InitDebounce ==
  /\ FetchIdle
  /\ DebounceInit
  /\ IntervalIdle
  /\ StorageIdle
  /\ ToggleIdle
  /\ PreviousIdle
  /\ MediaIdle
  /\ ClickIdle

NextDebounce ==
  \/ DebounceMount /\ UNCHANGED <<fetchVars, intervalVars, storageVars, toggleVars, previousVars, mediaVars, clickVars>>
  \/ SetValue /\ UNCHANGED <<fetchVars, intervalVars, storageVars, toggleVars, previousVars, mediaVars, clickVars>>
  \/ SetDelay /\ UNCHANGED <<fetchVars, intervalVars, storageVars, toggleVars, previousVars, mediaVars, clickVars>>
  \/ DebounceTick /\ UNCHANGED <<fetchVars, intervalVars, storageVars, toggleVars, previousVars, mediaVars, clickVars>>
  \/ DebounceFire /\ UNCHANGED <<fetchVars, intervalVars, storageVars, toggleVars, previousVars, mediaVars, clickVars>>
  \/ DebounceUnmount /\ UNCHANGED <<fetchVars, intervalVars, storageVars, toggleVars, previousVars, mediaVars, clickVars>>

SpecDebounce == InitDebounce /\ [][NextDebounce]_vars

\* The event loop: time keeps passing, and a timeout whose time has passed
\* fires unless it is cleared first.
FairSpecDebounce ==
  /\ SpecDebounce
  /\ WF_vars(DebounceTick /\ UNCHANGED <<fetchVars, intervalVars, storageVars, toggleVars, previousVars, mediaVars, clickVars>>)
  /\ SF_vars(DebounceFire /\ UNCHANGED <<fetchVars, intervalVars, storageVars, toggleVars, previousVars, mediaVars, clickVars>>)

InitInterval ==
  /\ FetchIdle
  /\ DebounceIdle
  /\ IntervalInit
  /\ StorageIdle
  /\ ToggleIdle
  /\ PreviousIdle
  /\ MediaIdle
  /\ ClickIdle

NextInterval ==
  \/ IntervalMount /\ UNCHANGED <<fetchVars, debounceVars, storageVars, toggleVars, previousVars, mediaVars, clickVars>>
  \/ SetCallback /\ UNCHANGED <<fetchVars, debounceVars, storageVars, toggleVars, previousVars, mediaVars, clickVars>>
  \/ SetCadence /\ UNCHANGED <<fetchVars, debounceVars, storageVars, toggleVars, previousVars, mediaVars, clickVars>>
  \/ SetCallbackAndCadence /\ UNCHANGED <<fetchVars, debounceVars, storageVars, toggleVars, previousVars, mediaVars, clickVars>>
  \/ IntervalTime /\ UNCHANGED <<fetchVars, debounceVars, storageVars, toggleVars, previousVars, mediaVars, clickVars>>
  \/ IntervalTick /\ UNCHANGED <<fetchVars, debounceVars, storageVars, toggleVars, previousVars, mediaVars, clickVars>>
  \/ IntervalUnmount /\ UNCHANGED <<fetchVars, debounceVars, storageVars, toggleVars, previousVars, mediaVars, clickVars>>

SpecInterval == InitInterval /\ [][NextInterval]_vars

InitStorage ==
  /\ FetchIdle
  /\ DebounceIdle
  /\ IntervalIdle
  /\ StorageInit
  /\ ToggleIdle
  /\ PreviousIdle
  /\ MediaIdle
  /\ ClickIdle

NextStorage ==
  \/ StorageMount /\ UNCHANGED <<fetchVars, debounceVars, intervalVars, toggleVars, previousVars, mediaVars, clickVars>>
  \/ SetLiteral /\ UNCHANGED <<fetchVars, debounceVars, intervalVars, toggleVars, previousVars, mediaVars, clickVars>>
  \/ SetFunctional /\ UNCHANGED <<fetchVars, debounceVars, intervalVars, toggleVars, previousVars, mediaVars, clickVars>>
  \/ StorageCommit /\ UNCHANGED <<fetchVars, debounceVars, intervalVars, toggleVars, previousVars, mediaVars, clickVars>>
  \/ StorageSetKey /\ UNCHANGED <<fetchVars, debounceVars, intervalVars, toggleVars, previousVars, mediaVars, clickVars>>
  \/ ExternalSet /\ UNCHANGED <<fetchVars, debounceVars, intervalVars, toggleVars, previousVars, mediaVars, clickVars>>
  \/ ExternalRemove /\ UNCHANGED <<fetchVars, debounceVars, intervalVars, toggleVars, previousVars, mediaVars, clickVars>>
  \/ ExternalClear /\ UNCHANGED <<fetchVars, debounceVars, intervalVars, toggleVars, previousVars, mediaVars, clickVars>>
  \/ StorageEvent /\ UNCHANGED <<fetchVars, debounceVars, intervalVars, toggleVars, previousVars, mediaVars, clickVars>>
  \/ StorageUnmount /\ UNCHANGED <<fetchVars, debounceVars, intervalVars, toggleVars, previousVars, mediaVars, clickVars>>

SpecStorage == InitStorage /\ [][NextStorage]_vars

InitToggle ==
  /\ FetchIdle
  /\ DebounceIdle
  /\ IntervalIdle
  /\ StorageIdle
  /\ ToggleInit
  /\ PreviousIdle
  /\ MediaIdle
  /\ ClickIdle

NextToggle ==
  \/ Toggle /\ UNCHANGED <<fetchVars, debounceVars, intervalVars, storageVars, previousVars, mediaVars, clickVars>>
  \/ SetTrue /\ UNCHANGED <<fetchVars, debounceVars, intervalVars, storageVars, previousVars, mediaVars, clickVars>>
  \/ SetFalse /\ UNCHANGED <<fetchVars, debounceVars, intervalVars, storageVars, previousVars, mediaVars, clickVars>>
  \/ ToggleCommit /\ UNCHANGED <<fetchVars, debounceVars, intervalVars, storageVars, previousVars, mediaVars, clickVars>>
  \/ ToggleUnmount /\ UNCHANGED <<fetchVars, debounceVars, intervalVars, storageVars, previousVars, mediaVars, clickVars>>

SpecToggle == InitToggle /\ [][NextToggle]_vars

InitPrevious ==
  /\ FetchIdle
  /\ DebounceIdle
  /\ IntervalIdle
  /\ StorageIdle
  /\ ToggleIdle
  /\ PreviousInit
  /\ MediaIdle
  /\ ClickIdle

NextPrevious ==
  \/ PreviousEvaluate /\ UNCHANGED <<fetchVars, debounceVars, intervalVars, storageVars, toggleVars, mediaVars, clickVars>>
  \/ PreviousEffect /\ UNCHANGED <<fetchVars, debounceVars, intervalVars, storageVars, toggleVars, mediaVars, clickVars>>
  \/ PreviousUnmount /\ UNCHANGED <<fetchVars, debounceVars, intervalVars, storageVars, toggleVars, mediaVars, clickVars>>

SpecPrevious == InitPrevious /\ [][NextPrevious]_vars

InitMedia ==
  /\ FetchIdle
  /\ DebounceIdle
  /\ IntervalIdle
  /\ StorageIdle
  /\ ToggleIdle
  /\ PreviousIdle
  /\ MediaInit
  /\ ClickIdle

NextMedia ==
  \/ MediaMount /\ UNCHANGED <<fetchVars, debounceVars, intervalVars, storageVars, toggleVars, previousVars, clickVars>>
  \/ MediaSetQuery /\ UNCHANGED <<fetchVars, debounceVars, intervalVars, storageVars, toggleVars, previousVars, clickVars>>
  \/ MediaChange /\ UNCHANGED <<fetchVars, debounceVars, intervalVars, storageVars, toggleVars, previousVars, clickVars>>
  \/ MediaUnmount /\ UNCHANGED <<fetchVars, debounceVars, intervalVars, storageVars, toggleVars, previousVars, clickVars>>

SpecMedia == InitMedia /\ [][NextMedia]_vars

InitClick ==
  /\ FetchIdle
  /\ DebounceIdle
  /\ IntervalIdle
  /\ StorageIdle
  /\ ToggleIdle
  /\ PreviousIdle
  /\ MediaIdle
  /\ ClickInit

NextClick ==
  \/ ClickMount /\ UNCHANGED <<fetchVars, debounceVars, intervalVars, storageVars, toggleVars, previousVars, mediaVars>>
  \/ ClickRender /\ UNCHANGED <<fetchVars, debounceVars, intervalVars, storageVars, toggleVars, previousVars, mediaVars>>
  \/ BindRef /\ UNCHANGED <<fetchVars, debounceVars, intervalVars, storageVars, toggleVars, previousVars, mediaVars>>
  \/ DocumentEvent /\ UNCHANGED <<fetchVars, debounceVars, intervalVars, storageVars, toggleVars, previousVars, mediaVars>>
  \/ ClickUnmount /\ UNCHANGED <<fetchVars, debounceVars, intervalVars, storageVars, toggleVars, previousVars, mediaVars>>

SpecClick == InitClick /\ [][NextClick]_vars

\* All bindings side by side.
Init ==
  /\ FetchInit
  /\ DebounceInit
  /\ IntervalInit
  /\ StorageInit
  /\ ToggleInit
  /\ PreviousInit
  /\ MediaInit
  /\ ClickInit

Next ==
  \/ NextFetch
  \/ NextDebounce
  \/ NextInterval
  \/ NextStorage
  \/ NextToggle
  \/ NextPrevious
  \/ NextMedia
  \/ NextClick

Spec == Init /\ [][Next]_vars

-----------------------------------------------------------------------------
(* Claims about useFetch *)

\* The fetchData call of request id ends in this step.
Ends(id) == (\E r \in reqs : r.id = id) /\ ~(\E r \in reqs' : r.id = id)

Failures == {"network", "http", "unsupported", "decode"}

\* C1: if request A is issued and then request B before A has completed, data
\* and error reflect B's outcome only: the end of a request that is not the
\* latest issued one changes neither data nor error, and the end of the latest
\* one commits its body to data or its failure to error.
C1_FetchRace ==
  [][\A r \in reqs :
       Ends(r.id) /\ fPhase = "mounted" =>
         IF r.id # nextReq
           THEN data' = data /\ error' = error
           ELSE \/ lastEvent'.kind = "data" /\ data' = r.id /\ error' = error
                \/ lastEvent'.kind \in Failures /\ data' = data /\ error'.req = r.id
                \/ lastEvent'.kind = "abort" /\ data' = data /\ error' = error]_vars

\* C2: the end of a canceled request (superseded by a newer request) changes
\* none of data, error and loading; in particular it does not alter the loading
\* flag that belongs to the newer request, which is still in flight.
C2_CancelSilent ==
  [][\A r \in reqs :
       (/\ Ends(r.id) /\ Canceled(r) /\ fPhase = "mounted"
        /\ \E q \in reqs' : q.id > r.id /\ ~Canceled(q))
       => data' = data /\ error' = error /\ loading' = loading]_vars

\* C3: at most one request of the binding is in flight and not canceled, and
\* after teardown none is.
C3_SingleCurrent ==
  /\ Cardinality({r \in reqs : ~Canceled(r)}) <= 1
  /\ fPhase = "unmounted" => \A r \in reqs : Canceled(r)

\* A step is the mount, or a render that changes the named dependency.
IsMount == fPhase = "rendered" /\ fPhase' = "mounted"

Issues == nextReq' = nextReq + 1

\* C4 as stated: with manual false a request is issued on mount and on every
\* change of url, fetch options or responseType; with manual true mount and
\* dependency changes issue none, and only refetch issues one.
C4_Triggering_Stated ==
  [][/\ (IsMount \/ url' # url \/ fetchOptions' # fetchOptions
                  \/ responseType' # responseType)
          => (Issues <=> ~manual')
     /\ (Issues /\ manual') => lastEvent'.kind = "refetch"]_vars

\* C4 as amended: with manual false and a non-empty url a request is issued on
\* mount and on every change of url, of the JSON serialization of the fetch
\* options or of responseType; with an empty url or manual true mount and
\* dependency changes issue none; with manual true only refetch issues one.
C4_Triggering ==
  [][/\ (IsMount \/ url' # url \/ Stringify(fetchOptions') # Stringify(fetchOptions)
                  \/ responseType' # responseType)
          => /\ Issues <=> (~manual' /\ url' # "")
             /\ Issues => lastEvent' = [kind |-> "effect", req |-> nextReq']
     /\ (Issues /\ manual') => lastEvent'.kind = "refetch"]_vars

\* A request issued by the effect after a dependency change, manual being false.
C4_Witness ==
  /\ lastEvent = [kind |-> "effect", req |-> 2]
  /\ ~manual
  /\ fPhase = "mounted"

\* C5: when the current, un-canceled request ends with a transport failure, a
\* non-success status, a decode failure or an unsupported responseType, error
\* becomes that failure (with the status code of a non-success status), data is
\* left as it was and loading becomes false.
C5_FailureOfCurrent ==
  [][\A r \in reqs :
       (/\ Ends(r.id) /\ r.id = nextReq /\ ~Canceled(r)
        /\ fPhase = "mounted" /\ lastEvent'.kind \in Failures)
       => /\ error' # NoError
          /\ error'.req = r.id
          /\ error'.kind = lastEvent'.kind
          /\ (error'.kind = "http" <=> error'.status \in Statuses)
          /\ (error'.kind = "http" => ~ResponseOk(error'.status))
          /\ (error'.kind = "unsupported" => ~Supported(r.rt))
          /\ data' = data
          /\ loading' = FALSE]_vars

\* The current request has just failed with a 404 while data of an earlier
\* request is held.
C5_Witness ==
  /\ lastEvent = [kind |-> "http", req |-> nextReq]
  /\ fPhase = "mounted"
  /\ error.status = 404
  /\ data # Null
  /\ data # nextReq

\* C21: while the binding is mounted, loading is true whenever the latest
\* issued request is in flight and not canceled, and loading is false once the
\* latest issued request has completed; whatever the order in which requests
\* are issued and canceled and canceled requests complete.
C21_LoadingFlag ==
  fPhase = "mounted" =>
    /\ (\E r \in reqs : r.id = nextReq /\ ~Canceled(r)) => loading
    /\ (nextReq > 0 /\ ~(\E r \in reqs : r.id = nextReq)) => ~loading

\* A request ends or moves on to its body in this step: the step is a
\* continuation of an async fetchData call, not a step of the owner.
Continues ==
  \E r \in reqs :
    Ends(r.id) \/ (\E q \in reqs' : q.id = r.id /\ q.phase # r.phase)

\* A mount, a render or a refetch of the mounted binding with a falsy url.
EmptyUrlStep == url' = "" /\ fPhase' = "mounted" /\ ~Continues

\* C22 as stated: with a falsy url neither mount, a dependency change nor
\* refetch issues a request or cancels the in-flight one, and data, error and
\* loading are left unchanged.
C22_EmptyUrl_Stated ==
  [][EmptyUrlStep
       => /\ ~Issues
          /\ reqs' = reqs
          /\ data' = data /\ error' = error /\ loading' = loading]_vars

\* C22 as amended: with a falsy url neither mount, a dependency change nor
\* refetch issues a request, and data, error and loading are left unchanged;
\* mount and refetch cancel nothing, and a dependency change cancels at most
\* the request of the latest controller (the cleanup of the effect); loading
\* keeps its initial value for as long as no request has been issued.
C22_EmptyUrl ==
  [][/\ EmptyUrlStep
          => /\ ~Issues
             /\ abortController' = abortController
             /\ data' = data /\ error' = error /\ loading' = loading
             /\ \A r \in reqs :
                  \/ r \in reqs'
                  \/ /\ r.id = abortController
                     /\ <<url', fetchOptions', responseType', manual'>>
                          # <<url, fetchOptions, responseType, manual>>
                     /\ [r EXCEPT !.ctlAborted = TRUE] \in reqs'
             /\ Cardinality(reqs') = Cardinality(reqs)
     /\ nextReq' = 0 => loading' = loading]_vars

\* The url has just become empty: the request in flight was canceled by the
\* cleanup of the effect, has not settled yet, and loading is still true.
C22_Witness ==
  /\ fPhase = "mounted"
  /\ url = ""
  /\ lastEvent = NoEvent
  /\ loading
  /\ \E r \in reqs : r.id = abortController /\ Canceled(r)

-----------------------------------------------------------------------------
(* Claims about useDebounce *)

\* A timeout fires in this step.
Fires ==
  /\ dPhase' = dPhase /\ value' = value /\ delay' = delay
  /\ Cardinality(timeouts') < Cardinality(timeouts)

\* C6: the debounced output never takes an intermediate value of a burst: a
\* commit happens only when the input has been unchanged for at least delay,
\* and it commits the latest input; nothing else changes the output.
C6_Burst ==
  [][/\ (Fires /\ dPhase = "mounted")
          => debouncedValue' = value /\ sinceInput >= delay
     /\ debouncedValue' # debouncedValue => Fires]_vars

\* The last value of the burst a -> b -> c has been committed, b was replaced
\* before its commit.
C6_Witness ==
  /\ dPhase = "mounted"
  /\ value = "c"
  /\ debouncedValue = "c"
  /\ skipped = {"b"}
  /\ delay = MaxDelay
  /\ sinceInput = MaxDelay
  /\ timeouts = {}

\* C7: at most one commit is pending and it carries the latest input value;
\* after teardown none is pending; every change of value or delay cancels the
\* pending commit and schedules a new one, with the whole new delay to run.
C7_TimerDiscipline ==
  /\ [](/\ Cardinality(timeouts) <= 1
        /\ \A t \in timeouts : t.value = value /\ t.id = handler /\ t.rem <= delay
        /\ dPhase = "unmounted" => timeouts = {})
  /\ [][(value' # value \/ delay' # delay)
          => timeouts' = {[id |-> handler', value |-> value', rem |-> delay']}]_vars

\* A pending commit, part of its delay gone, was replaced by a new one.
C7_Witness ==
  /\ dPhase = "mounted"
  /\ value = "b"
  /\ debouncedValue = "a"
  /\ sinceInput = 0
  /\ \E t \in timeouts : t.value = "b" /\ t.rem = delay /\ delay = MaxDelay

\* C8 as stated: while mounted, once the input value stops changing the output
\* eventually equals it, and stays equal until the input changes again.
C8_Liveness_Stated ==
  /\ \A v \in Values :
       (dPhase = "mounted" /\ value = v)
         ~> (debouncedValue = v \/ value # v \/ dPhase # "mounted")
  /\ [][(debouncedValue = value /\ value' = value)
          => debouncedValue' = value']_vars

\* C8 as amended: while mounted, once the input value and the delay stop
\* changing the output eventually equals the input value, and stays equal until
\* the input value changes again.
C8_Liveness ==
  /\ \A v \in Values, d \in Delays :
       (dPhase = "mounted" /\ value = v /\ delay = d)
         ~> (debouncedValue = v \/ value # v \/ delay # d \/ dPhase # "mounted")
  /\ [][(debouncedValue = value /\ value' = value)
          => debouncedValue' = value']_vars

\* The output has caught up with an input that differs from the first one.
C8_Witness ==
  /\ dPhase = "mounted"
  /\ value = "b"
  /\ debouncedValue = "b"
  /\ timeouts = {}

-----------------------------------------------------------------------------
(* Claims about useInterval *)

\* C9: the callback a tick invokes is the one most recently supplied to the
\* hook, whichever callback was current when the interval was scheduled.
C9_CallbackFreshness ==
  invoked # NoCall => invoked = callback /\ iPhase = "mounted"

\* A tick of an interval scheduled under c1 has invoked c2.
C9_Witness ==
  /\ invoked = "c2"
  /\ \E t \in intervals : t.cb = "c1"

\* C10: a render that replaces the callback and keeps the cadence leaves the
\* running interval as it is (same timer, same time to the next tick); a render
\* that changes the cadence removes the running interval and, unless the new
\* cadence is null, schedules exactly one new interval with the new cadence.
C10_Rescheduling ==
  [][/\ (callback' # callback /\ cadence' = cadence) => intervals' = intervals
     /\ (cadence' # cadence /\ cadence' # Null)
          => /\ \E t \in intervals' :
                  /\ intervals' = {t}
                  /\ t.delay = cadence' /\ t.rem = cadence'
                  /\ \A o \in intervals : o.id # t.id
     /\ (cadence' # cadence /\ cadence' = Null) => intervals' = {}]_vars

\* The second interval of the binding, scheduled under c1 after a change of
\* cadence, is half way to its next tick and the callback is now c2.
C10_Witness ==
  /\ iPhase = "mounted"
  /\ callback = "c2"
  /\ \E t \in intervals :
       t.id = 2 /\ t.cb = "c1" /\ t.delay = 2 /\ t.rem = 1 /\ cadence = 2

\* C11: an interval is active for the binding exactly when it is mounted and
\* its cadence is not null, and never more than one is; no tick invokes the
\* callback while the cadence is null or after teardown; and a render that
\* replaces the null cadence by a number starts an interval again.
C11_PauseTeardown ==
  /\ [](/\ (intervals # {}) <=> (iPhase = "mounted" /\ cadence # Null)
        /\ Cardinality(intervals) <= 1
        /\ invoked # NoCall => (iPhase = "mounted" /\ cadence # Null))
  /\ [][(iPhase = "mounted" /\ cadence = Null /\ cadence' # Null)
          => \E t \in intervals' : t.delay = cadence' /\ t.rem = cadence']_vars

\* After a pause the second interval of the binding has ticked.
C11_Witness ==
  /\ resumed
  /\ iPhase = "mounted"
  /\ nextTimer = 2
  /\ invoked # NoCall

-----------------------------------------------------------------------------
(* Claims about useLocalStorage *)

\* This step is a call of setValue that returned without a failure.
SetSucceeds == lastOp'.op = "set" /\ lastOp'.res = "ok"

\* The value a call of setValue is to produce: its literal, or its updater
\* applied to prev.
Produced(arg, prev) == IF arg \in Updaters THEN Apply(arg, prev) ELSE arg

\* C12 as stated: after any successful setValue call, with a literal v or with
\* a function f, the value exposed by the binding and the value obtained by
\* reading and parsing the store entry under the key are equal, and equal to v
\* (respectively f of the value the binding exposed).
C12_RoundTrip_Stated ==
  [][SetSucceeds
       => /\ Exposed' = Produced(lastOp'.arg, storedValue)
          /\ Parse(store'[key']) = Produced(lastOp'.arg, storedValue)]_vars

\* C12 as amended: the same, for a value that survives the JSON round trip
\* (JSON.parse(JSON.stringify(v)) is v).
C12_RoundTrip ==
  [][(/\ SetSucceeds
      /\ Parse(StringifyValue(Produced(lastOp'.arg, storedValue)))
            = Produced(lastOp'.arg, storedValue))
       => /\ Exposed' = Produced(lastOp'.arg, storedValue)
          /\ Parse(store'[key']) = Produced(lastOp'.arg, storedValue)]_vars

\* A functional update has just been written through under the second key,
\* whose entry now differs from the first key's.
C12_Witness ==
  /\ lastOp = [op |-> "set", arg |-> "next", res |-> "ok"]
  /\ key = "k2"
  /\ storedValue = "a"
  /\ Exposed = "b"
  /\ Parse(store["k2"]) = "b"
  /\ store["k1"] # store["k2"]

\* C13: each functional update is applied to the value produced by the
\* immediately preceding set, also when that set was made after the latest
\* re-evaluation of the owner: after two successive calls of setValue, the
\* second with an updater f, the in-memory value is f of the value the first
\* produced and the store holds its serialization.
C13_Sequencing ==
  [][(/\ lastOp.op = "set" /\ lastOp.res = "ok"
      /\ SetSucceeds
      /\ lastOp'.arg \in Updaters)
       => /\ Exposed' = Apply(lastOp'.arg, Exposed)
          /\ store'[key'] = StringifyValue(Apply(lastOp'.arg, Exposed))]_vars

\* C14: right after initialization the value is the parsed content of the
\* key's entry when the entry is present and parsable; it is the default when
\* the entry is absent, the read threw or the content is unparsable; and it
\* is never the exception.
C14_InitialRead ==
  lastOp.op = "init"
    => /\ storedValue # Throws
       /\ (~readThrew /\ store[key] # Missing /\ Parse(store[key]) # Throws)
            => storedValue = Parse(store[key])
       /\ (readThrew \/ store[key] = Missing \/ Parse(store[key]) = Throws)
            => storedValue = initialValue

\* The binding was initialized over an entry that is not JSON and holds the
\* default.
C14_Witness ==
  /\ lastOp.op = "init"
  /\ sPhase = "rendered"
  /\ ~readThrew
  /\ store[key] = "{"
  /\ storedValue = initialValue
  /\ initialValue = "null"

\* The window dispatches a storage event in this step.
Dispatches == events # <<>> /\ events' = Tail(events)

\* C15: when the write or the serialization of a setValue call fails, or a
\* notification for the key carries unparsable content, the in-memory value is
\* what it was before that operation.
C15_FailureSemantics ==
  [][/\ (lastOp'.op = "set" /\ lastOp'.res = "threw") => Exposed' = Exposed
     /\ (/\ Dispatches /\ sPhase = "mounted"
         /\ Head(events).key = key
         /\ ~Falsy(Head(events).newValue)
         /\ Parse(Head(events).newValue) = Throws)
          => Exposed' = Exposed]_vars

\* The in-memory value v and the content c of the entry agree: null stands
\* for no entry.
Agrees(v, c) == IF c = Missing THEN v = "null" ELSE Parse(c) = v

\* C16: a notification for the binding's key sets the in-memory value to the
\* parsed new value, or to null when the key was removed, and the in-memory
\* value and the store agree afterwards; a notification for any other key
\* leaves the in-memory value as it was.
C16_Notifications ==
  [][(Dispatches /\ sPhase = "mounted")
       => IF Head(events).key = key
            THEN /\ Head(events).newValue = Missing => Exposed' = "null"
                 /\ Parse(Head(events).newValue) # Throws
                      => Exposed' = Parse(Head(events).newValue)
                 /\ (\/ Head(events).newValue = Missing
                     \/ Parse(Head(events).newValue) # Throws)
                      => Agrees(Exposed', store'[key'])
            ELSE Exposed' = Exposed]_vars

\* C23: a change of the key argument does not re-read the store: it leaves
\* the in-memory value and the store as they were; afterwards a notification
\* for any other key, the former key included, leaves the in-memory value as
\* it was, a notification for the new key is applied (the parsed new value,
\* null for a removed or empty entry, no change for unparsable content), and
\* setValue writes the entry of the new key and no other.
C23_KeyChange ==
  [][/\ key' # key => (Exposed' = Exposed /\ store' = store)
     /\ (Dispatches /\ sPhase = "mounted")
          => IF Head(events).key # key
               THEN Exposed' = Exposed
               ELSE IF Head(events).newValue \in {Missing, ""}
                 THEN Exposed' = "null"
                 ELSE IF Parse(Head(events).newValue) # Throws
                   THEN Exposed' = Parse(Head(events).newValue)
                   ELSE Exposed' = Exposed
     /\ lastOp'.op = "set" => \A k \in Keys : k # key => store'[k] = store[k]
     /\ SetSucceeds
          => store'[key] = StringifyValue(Produced(lastOp'.arg, storedValue))]_vars

\* The key has just changed from k1 to k2: the in-memory value is still the
\* one read under k1 although the entry of k2 holds another value.
C23_Witness ==
  /\ sPhase = "mounted"
  /\ lastOp.op = "key"
  /\ key = "k2"
  /\ Exposed = "a"
  /\ Parse(store["k2"]) = "b"

-----------------------------------------------------------------------------
(* Claims about useToggle *)

\* The latest two calls were c1 then c2, and the owner has been re-evaluated
\* since.
Called(c1, c2) ==
  /\ tPhase = "mounted"
  /\ queue = <<>>
  /\ Len(hist) = 2
  /\ hist[1].call = c1
  /\ hist[2].call = c2

\* C17: toggle(); toggle() returns to the state before the first of the two,
\* whether or not the owner was re-evaluated between them; setTrue() then
\* setFalse() yields false and setFalse() then setTrue() yields true; and each
\* call hands exactly one update to React.
C17_ToggleAlgebra ==
  /\ [](/\ Called("toggle", "toggle") => state = hist[1].before
        /\ Called("setTrue", "setFalse") => state = FALSE
        /\ Called("setFalse", "setTrue") => state = TRUE)
  /\ [][(queue' # queue /\ queue' # <<>>)
          => Len(queue') = Len(queue) + 1 /\ SubSeq(queue', 1, Len(queue)) = queue]_vars

\* Two toggles made before one re-evaluation have brought a true state back
\* to true.
C17_Witness ==
  /\ Called("toggle", "toggle")
  /\ lastBatch = <<"not", "not">>
  /\ hist[1].before = TRUE
  /\ state = TRUE

-----------------------------------------------------------------------------
(* Claims about usePrevious *)

\* C18: the first evaluation returns undefined and every later evaluation
\* returns the value of the evaluation before it, equal or not to its own; the
\* remembered value changes only after the evaluation has returned: not in the
\* step of an evaluation, and until then it is what the evaluation returned.
C18_PreviousLag ==
  /\ [](/\ evals = 1 => returned = Undefined
        /\ evals > 1 => returned = preceding
        /\ effectDue => ref = returned)
  /\ [][ref' # ref => (evals' = evals /\ returned' = returned /\ ref' = observed)]_vars

\* The third evaluation of the sequence a, b, b has returned b.
C18_Witness ==
  /\ pPhase = "mounted"
  /\ evals = 3
  /\ observed = "b"
  /\ preceding = "b"
  /\ returned = "b"
  /\ ~effectDue

-----------------------------------------------------------------------------
(* Claims about useMediaQuery *)

\* C19: the mounted binding holds exactly one change subscription, on the
\* current expression, and none after teardown; a change of the expression
\* removes the old subscription and sets the state to the current match of the
\* new expression; a change event of the current expression sets the state to
\* that expression's match, and a change event of any other expression, a
\* former one included, leaves the state as it was.
C19_MediaSubscription ==
  /\ [](/\ mPhase = "mounted" => subs = {query}
        /\ mPhase = "unmounted" => subs = {})
  /\ [][/\ query' # query => (query \notin subs' /\ matches' = media'[query'])
        /\ \A q \in Queries :
             media'[q] # media[q] =>
               IF q = query /\ mPhase = "mounted"
                 THEN matches' = media'[q]
                 ELSE matches' = matches]_vars

\* The binding moved from q1 to q2; a change event of q1 has just been
\* dispatched and the state is still the match of q2, which differs from q1's.
C19_Witness ==
  /\ mPhase = "mounted"
  /\ query = "q2"
  /\ lastChange = "q1"
  /\ matches = media["q2"]
  /\ media["q1"] # media["q2"]

-----------------------------------------------------------------------------
(* Claims about useOnClickOutside *)

\* C20: while mounted, a mousedown or touchstart event whose target lies
\* outside the element the ref is bound to invokes the handler of the latest
\* render exactly once and no other handler; an event whose target is the
\* element or a descendant of it, or that occurs while the ref is not bound,
\* invokes no handler; after teardown no handler is invoked.
C20_ClickOutside ==
  domEvent # NoDomEvent =>
    IF /\ cPhase = "mounted"
       /\ current[clickRef] # Unbound
       /\ domEvent.target # current[clickRef]
       /\ ~(current[clickRef] = "e1" /\ domEvent.target = "e1c")
      THEN called = [h \in Handlers |-> IF h = clickHandler THEN 1 ELSE 0]
      ELSE called = NoCalls

\* After the handler was replaced, a touchstart outside the element has invoked
\* the new handler once.
C20_Witness ==
  /\ cPhase = "mounted"
  /\ clickHandler = "h2"
  /\ current[clickRef] = "e1"
  /\ domEvent = [type |-> "touchstart", target |-> "out"]
  /\ called = [h \in Handlers |-> IF h = "h2" THEN 1 ELSE 0]

====
